---------------------------- MODULE Spec2Model ----------------------------
(***************************************************************************)
(* Transaction ledger and FIFO valuation engine of the bullion inventory   *)
(* application: recalculateAllData (the replay), getInventorySnapshot and  *)
(* performFullSystemAudit.                                                 *)
(*                                                                         *)
(* Representation.  Quantities are integers counting units of              *)
(* 1/UnitsPerGram gram (the three decimals formatGrams prints); a rate is  *)
(* an integer amount per gram, so quantity * rate is an amount in          *)
(* 1/UnitsPerGram of the currency unit, and taxableAmount, cogs, profit    *)
(* and value are held in that unit.  A threshold such as 0.0001 g is the   *)
(* fraction 1/EpsDen and the comparison q > 0.0001 is written              *)
(* q > UnitsPerGram \div EpsDen.  Dates, timestamps and ids are strings in    *)
(* the program that are only ever compared with localeCompare, <= and      *)
(* ===; they are integers here, in the same order.  createdAt = 0 and     *)
(* closedDate = 0 stand for an absent (undefined) field.                   *)
(***************************************************************************)
EXTENDS Integers, Sequences, FiniteSets, TLC

VARIABLES
    orders,             \* what the last loadData fetched: cloudOrders and localOrders
    engine,             \* the sort algorithm of the JavaScript engine that runs the code
    allInvoices,        \* argument of recalculateAllData
    pc,                 \* position in recalculateAllData: "start", "loop", "done"
    sorted,             \* const sorted
    idx,                \* number of elements of sorted the for-loop has processed
    currentInventory,   \* let currentInventory
    processedInvoices,  \* const processedInvoices
    prev,               \* result returned by the previous call, if any
    snapshotData,       \* last result of getInventorySnapshot, with its argument
    auditReport,        \* last result of performFullSystemAudit, with its arguments
    agingStats,         \* last result of calculateStockAging, with its clock
    supplierData,       \* last result of calculateSupplierStats
    turnoverStats       \* last result of calculateTurnoverStats, with its window

vars == <<orders, engine, allInvoices, pc, sorted, idx, currentInventory, processedInvoices,
          prev, snapshotData, auditReport, agingStats, supplierData, turnoverStats>>

(* the memoised analytics of the dashboard *)
analytics == <<agingStats, supplierData, turnoverStats>>

----------------------------------------------------------------------------
(* Bounds of the model *)

MaxTx == 3

MaxQty == 2

MaxDate == 2

(* Program constants *)

UnitsPerGram == 1000

EpsDen == 10000

SnapEpsDen == 1000000

AuditTolDen == 1000

NegTolDen == 10000

StockPenalty == 20

NegativePenalty == 15

IntegrityPenalty == 10

FullScore == 100

----------------------------------------------------------------------------
(* Helpers *)

Min(a, b) == IF a <= b THEN a ELSE b

Max(a, b) == IF a >= b THEN a ELSE b

Abs(a) == IF a >= 0 THEN a ELSE 0 - a

Front(s) == SubSeq(s, 1, Len(s) - 1)

Last(s) == s[Len(s)]

Reverse(s) == [k \in 1..Len(s) |-> s[Len(s) + 1 - k]]

RECURSIVE SumSeq(_)
SumSeq(s) == IF s = <<>> THEN 0 ELSE Last(s) + SumSeq(Front(s))

(* q > 1/den and q < 1/den for a quantity q counted in 1/UnitsPerGram *)
ExceedsFraction(q, den) == q > UnitsPerGram \div den

BelowFraction(q, den) == q < 0 - ((0 - UnitsPerGram) \div den)

(* String.prototype.localeCompare on the strings the program compares *)
LocaleCompare(x, y) == IF x < y THEN -1 ELSE IF x > y THEN 1 ELSE 0

----------------------------------------------------------------------------
(* Ordering: the comparators handed to Array.prototype.sort *)

(* (a, b) => ... of recalculateAllData *)
CompareInvoices(a, b) ==
    LET dateComp == LocaleCompare(a.date, b.date)
    IN  IF dateComp # 0 THEN dateComp
        ELSE IF a.createdAt # 0 /\ b.createdAt # 0
                   /\ LocaleCompare(a.createdAt, b.createdAt) # 0
             THEN LocaleCompare(a.createdAt, b.createdAt)
             ELSE LocaleCompare(a.id, b.id)

(* the timestamps compared also when one is missing: a record without *)
(* one goes first                                                     *)
SnapshotCompareMissingFirst(a, b) ==
    LET dateComp == LocaleCompare(a.date, b.date)
    IN  IF dateComp # 0 THEN dateComp
        ELSE LET timeComp == LocaleCompare(a.createdAt, b.createdAt)
             IN  IF timeComp # 0 THEN timeComp
                 ELSE LocaleCompare(a.id, b.id)

(* (a, b) => ... of getInventorySnapshot *)
SnapshotCompare(a, b) ==
    LET dateComp == LocaleCompare(a.date, b.date)
    IN  IF dateComp # 0 THEN dateComp
        ELSE LET timeComp == IF a.createdAt # 0 /\ b.createdAt # 0
                             THEN LocaleCompare(a.createdAt, b.createdAt)
                             ELSE 0
             IN  IF timeComp # 0 THEN timeComp
                 ELSE LocaleCompare(a.id, b.id)

(* (a, b) => a.date.localeCompare(b.date) of performFullSystemAudit *)
AuditCompare(a, b) == LocaleCompare(a.date, b.date)

(* (a, b) => b.totalGramsPurchased - a.totalGramsPurchased of calculateSupplierStats *)
SupplierCompare(a, b) == b.totalGramsPurchased - a.totalGramsPurchased

Compare(key, a, b) ==
    CASE key = "replay"   -> CompareInvoices(a, b)
      [] key = "snapshot" -> SnapshotCompare(a, b)
      [] key = "audit"    -> AuditCompare(a, b)
      [] key = "supplier" -> SupplierCompare(a, b)

(* Array.prototype.sort.  The language fixes the result only for a         *)
(* comparator that is a consistent ordering (the sort is then stable);     *)
(* otherwise the order is whatever the engine's algorithm yields.  engine  *)
(* names the algorithm of the build: a plain insertion sort, or the        *)
(* TimSort of V8, which on arrays shorter than 32 elements finds the       *)
(* leading run, reverses it when it descends, and puts the other elements  *)
(* in place by binary insertion.                                           *)
SortEngines == {"insertion", "timsort"}

(* insertion sort: x moves left past every element the comparator puts after it *)
RECURSIVE InsertSorted(_, _, _)
InsertSorted(key, s, x) ==
    IF s = <<>> THEN <<x>>
    ELSE IF Compare(key, Last(s), x) > 0
         THEN Append(InsertSorted(key, Front(s), x), Last(s))
         ELSE Append(s, x)

RECURSIVE SortPrefix(_, _, _)
SortPrefix(key, arr, n) ==
    IF n = 0 THEN <<>>
    ELSE InsertSorted(key, SortPrefix(key, arr, n - 1), arr[n])

InsertionSort(key, arr) == SortPrefix(key, arr, Len(arr))

(* TimSort, CountAndMakeRun: the last index of the run that starts at 1 *)
RECURSIVE RunEnd(_, _, _, _)
RunEnd(key, arr, k, isDescending) ==
    IF k > Len(arr) THEN k - 1
    ELSE LET order == Compare(key, arr[k], arr[k - 1])
         IN  IF (isDescending /\ order >= 0) \/ (~isDescending /\ order < 0)
             THEN k - 1
             ELSE RunEnd(key, arr, k + 1, isDescending)

(* TimSort, BinaryInsertionSort: where pivot goes in the sorted prefix s; *)
(* left and right count from 0                                            *)
RECURSIVE InsertionPoint(_, _, _, _, _)
InsertionPoint(key, s, pivot, left, right) ==
    IF left >= right THEN left
    ELSE LET mid == left + ((right - left) \div 2)
         IN  IF Compare(key, pivot, s[mid + 1]) < 0
             THEN InsertionPoint(key, s, pivot, left, mid)
             ELSE InsertionPoint(key, s, pivot, mid + 1, right)

RECURSIVE BinaryInsertFrom(_, _, _, _)
BinaryInsertFrom(key, s, arr, k) ==
    IF k > Len(arr) THEN s
    ELSE LET at == InsertionPoint(key, s, arr[k], 0, Len(s))
         IN  BinaryInsertFrom(key,
                 SubSeq(s, 1, at) \o <<arr[k]>> \o SubSeq(s, at + 1, Len(s)),
                 arr, k + 1)

TimSort(key, arr) ==
    IF Len(arr) < 2 THEN arr
    ELSE LET isDescending == Compare(key, arr[2], arr[1]) < 0
             runEnd == RunEnd(key, arr, 3, isDescending)
             run == IF isDescending THEN Reverse(SubSeq(arr, 1, runEnd))
                    ELSE SubSeq(arr, 1, runEnd)
         IN  BinaryInsertFrom(key, run, arr, runEnd + 1)

ArraySort(key, arr) ==
    IF engine = "timsort" THEN TimSort(key, arr) ELSE InsertionSort(key, arr)

(* arr.sort(...): the array the caller holds is the one that gets sorted *)
SortInPlace(key, arr) ==
    [array |-> ArraySort(key, arr), sorted |-> ArraySort(key, arr)]

(* [...arr].sort(...): a copy is sorted, the array the caller holds stays as it is *)
SpreadSort(key, arr) ==
    [array |-> arr, sorted |-> ArraySort(key, arr)]

----------------------------------------------------------------------------
(* recalculateAllData *)

PURCHASE == "PURCHASE"

SALE == "SALE"

(* { ...inv, cogs, profit, fifoLog } *)
Annotate(inv, c, p, log) ==
    [f \in (DOMAIN inv) \cup {"cogs", "profit", "fifoLog"} |->
        IF f = "cogs" THEN c
        ELSE IF f = "profit" THEN p
        ELSE IF f = "fifoLog" THEN log
        ELSE inv[f]]

(* the batch valued at the price with tax *)
NewBatchAtTotal(inv) ==
    [id |-> inv.id, date |-> inv.date,
     originalQuantity |-> inv.quantityGrams,
     remainingQuantity |-> inv.quantityGrams,
     costPerGram |-> inv.totalAmount,
     closedDate |-> 0]

(* const newBatch: InventoryBatch = { ... } *)
NewBatch(inv) ==
    [id |-> inv.id, date |-> inv.date,
     originalQuantity |-> inv.quantityGrams,
     remainingQuantity |-> inv.quantityGrams,
     costPerGram |-> inv.ratePerGram,
     closedDate |-> 0]

(* entries of consumptionLog; formatGrams and formatCurrency print the *)
(* numbers at the resolution the model holds them in                   *)
NoTimestampWarning == [kind |-> "NO_TIMESTAMP", grams |-> 0, date |-> 0, rate |-> 0]

ConsumedEntry(take, batch) ==
    [kind |-> "FROM", grams |-> take, date |-> batch.date, rate |-> batch.costPerGram]

StockoutWarningInGrams(left) ==
    [kind |-> "STOCKOUT", grams |-> left \div UnitsPerGram, date |-> 0, rate |-> 0]

StockoutWarning(left) == [kind |-> "STOCKOUT", grams |-> left, date |-> 0, rate |-> 0]

(* batch.remainingQuantity > 0.0001 *)
BatchHasStock(batch) == ExceedsFraction(batch.remainingQuantity, EpsDen)

(* only a batch drawn below zero counts as used up *)
BatchBelowZero(batch) == batch.remainingQuantity < 0

(* batch.remainingQuantity < 0.0001 *)
BatchDepleted(batch) == BelowFraction(batch.remainingQuantity, EpsDen)

(* the whole batch is taken, whatever is still needed *)
TakeWholeBatch(batch, remainingToSell) == batch.remainingQuantity

(* no more than the smallest quantity is taken from one batch *)
TakeAtMostUnit(batch, remainingToSell) ==
    Min(Min(batch.remainingQuantity, remainingToSell), 1)

(* Math.min(batch.remainingQuantity, remainingToSell) *)
Take(batch, remainingToSell) == Min(batch.remainingQuantity, remainingToSell)

(* a slip of sign: the batch grows by what is taken *)
DrawFromBatchAdding(batch, take, saleDate) ==
    [batch EXCEPT !.remainingQuantity = @ + take]

(* the body of for (const batch of currentInventory) for one batch that has stock *)
DrawFromBatch(batch, take, saleDate) ==
    LET drawn == [batch EXCEPT !.remainingQuantity = @ - take]
    IN  IF BatchDepleted(drawn)
        THEN [drawn EXCEPT !.remainingQuantity = 0, !.closedDate = saleDate]
        ELSE drawn

(* the chunk costed as the whole of what the batch held *)
CostForChunkOfBatch(take, batch) == batch.remainingQuantity * batch.costPerGram

(* const costForChunk = take * batch.costPerGram *)
CostForChunk(take, batch) == take * batch.costPerGram

(* for (const batch of currentInventory) { ... }, from batch k on; st holds the *)
(* loop's variables: inventory, remainingToSell, totalCOGS, consumptionLog      *)
RECURSIVE ConsumeFrom(_, _, _)
ConsumeFrom(st, k, saleDate) ==
    IF k > Len(st.inventory) THEN st
    ELSE IF st.remainingToSell <= 0 THEN st
    ELSE LET batch == st.inventory[k]
         IN  IF BatchHasStock(batch)
             THEN LET take == Take(batch, st.remainingToSell)
                  IN  ConsumeFrom(
                        [inventory |-> [st.inventory EXCEPT ![k] = DrawFromBatch(batch, take, saleDate)],
                         remainingToSell |-> st.remainingToSell - take,
                         totalCOGS |-> st.totalCOGS + CostForChunk(take, batch),
                         consumptionLog |-> Append(st.consumptionLog, ConsumedEntry(take, batch))],
                        k + 1, saleDate)
             ELSE ConsumeFrom(st, k + 1, saleDate)

(* the revenue taken with its tax *)
SaleRevenueWithTax(inv) ==
    IF inv.totalAmount # 0 THEN inv.totalAmount
    ELSE inv.quantityGrams * inv.ratePerGram

(* inv.taxableAmount || (inv.quantityGrams * inv.ratePerGram) *)
SaleRevenue(inv) ==
    IF inv.taxableAmount # 0 THEN inv.taxableAmount
    ELSE inv.quantityGrams * inv.ratePerGram

(* the warning only for a shortfall of more than a gram *)
IsStockoutAboveGram(remainingToSell) == ExceedsFraction(remainingToSell, 1)

(* remainingToSell > 0.0001 *)
IsStockout(remainingToSell) == ExceedsFraction(remainingToSell, EpsDen)

(* the warning pushed for every sale *)
InitialLogAlwaysWarning(inv) == <<NoTimestampWarning>>

(* const consumptionLog = []; if (!inv.createdAt) consumptionLog.push(...) *)
InitialLog(inv) == IF inv.createdAt = 0 THEN <<NoTimestampWarning>> ELSE <<>>

(* the else branch of the for-loop body: a SALE *)
ProcessSale(inventory, inv) ==
    LET log0 == InitialLog(inv)
        st == ConsumeFrom([inventory |-> inventory,
                           remainingToSell |-> inv.quantityGrams,
                           totalCOGS |-> 0,
                           consumptionLog |-> log0], 1, inv.date)
        log == IF IsStockout(st.remainingToSell)
               THEN Append(st.consumptionLog, StockoutWarning(st.remainingToSell))
               ELSE st.consumptionLog
        profit == SaleRevenue(inv) - st.totalCOGS
    IN  [inventory |-> st.inventory,
         invoice |-> Annotate(inv, st.totalCOGS, profit, log)]

(* the purchase annotated with what it cost *)
ProcessPurchaseWithCost(inventory, inv) ==
    [inventory |-> Append(inventory, NewBatch(inv)),
     invoice |-> Annotate(inv, inv.quantityGrams * inv.ratePerGram, 0, <<>>)]

(* the purchase added to the newest batch instead of opening one *)
ProcessPurchaseToppingUp(inventory, inv) ==
    [inventory |-> IF inventory = <<>> THEN <<NewBatch(inv)>>
                   ELSE [inventory EXCEPT ![Len(inventory)].remainingQuantity =
                                              @ + inv.quantityGrams],
     invoice |-> Annotate(inv, 0, 0, <<>>)]

(* the then branch of the for-loop body: a PURCHASE *)
ProcessPurchase(inventory, inv) ==
    [inventory |-> Append(inventory, NewBatch(inv)),
     invoice |-> Annotate(inv, 0, 0, <<>>)]

(* one iteration of for (const inv of sorted) *)
ProcessInvoice(inventory, inv) ==
    IF inv.type = PURCHASE THEN ProcessPurchase(inventory, inv)
    ELSE ProcessSale(inventory, inv)

(* let currentInventory: InventoryBatch[] = [] *)
FreshInventory(previous) == <<>>

(* the state of the loop after n iterations over the sorted array *)
RECURSIVE ReplayPrefix(_, _)
ReplayPrefix(srt, n) ==
    IF n = 0 THEN [inventory |-> FreshInventory(<<>>), invoices |-> <<>>]
    ELSE LET before == ReplayPrefix(srt, n - 1)
             step == ProcessInvoice(before.inventory, srt[n])
         IN  [inventory |-> step.inventory,
              invoices |-> Append(before.invoices, step.invoice)]

(* recalculateAllData as a function of its argument *)
RecalculateAllData(arr) ==
    LET srt == SpreadSort("replay", arr).sorted
        end == ReplayPrefix(srt, Len(srt))
    IN  [updatedInvoices |-> end.invoices, updatedInventory |-> end.inventory]

----------------------------------------------------------------------------
(* getInventorySnapshot *)

(* invoices.filter(inv => inv.date <= targetDate) *)
RECURSIVE FilterUpTo(_, _)
FilterUpTo(invoices, targetDate) ==
    IF invoices = <<>> THEN <<>>
    ELSE LET rest == FilterUpTo(Front(invoices), targetDate)
         IN  IF Last(invoices).date <= targetDate
             THEN Append(rest, Last(invoices)) ELSE rest

(* invoices.filter(...).sort(...): filter returns a new array and that one is *)
(* sorted, the array the caller holds stays as it is                         *)
FilterSort(key, invoices, targetDate) ==
    [array |-> invoices, sorted |-> ArraySort(key, FilterUpTo(invoices, targetDate))]

(* the walk goes on only for more than the smallest quantity *)
SnapshotStillToSellAboveUnit(remainingToSell) == remainingToSell > 1

(* remainingToSell > 0.000001 *)
SnapshotStillToSell(remainingToSell) == ExceedsFraction(remainingToSell, SnapEpsDen)

(* while (remainingToSell > 0.000001 && batches.length > 0) { ... } *)
RECURSIVE SnapshotConsume(_, _)
SnapshotConsume(batches, remainingToSell) ==
    IF SnapshotStillToSell(remainingToSell) /\ Len(batches) > 0
    THEN LET currentBatch == batches[1]
         IN  IF currentBatch.quantity > remainingToSell
             THEN SnapshotConsume(
                    [batches EXCEPT ![1].quantity = @ - remainingToSell], 0)
             ELSE SnapshotConsume(Tail(batches),
                                  remainingToSell - currentBatch.quantity)
    ELSE batches

(* for (const inv of relevantInvoices) { ... }, after the first n invoices *)
RECURSIVE SnapshotWalk(_, _)
SnapshotWalk(relevantInvoices, n) ==
    IF n = 0 THEN [batches |-> <<>>, totalQuantity |-> 0]
    ELSE LET before == SnapshotWalk(relevantInvoices, n - 1)
             inv == relevantInvoices[n]
         IN  IF inv.type = PURCHASE
             THEN [batches |-> Append(before.batches,
                                      [quantity |-> inv.quantityGrams,
                                       cost |-> inv.ratePerGram]),
                   totalQuantity |-> before.totalQuantity + inv.quantityGrams]
             ELSE [batches |-> SnapshotConsume(before.batches, inv.quantityGrams),
                   totalQuantity |-> before.totalQuantity - inv.quantityGrams]

(* batches.reduce((sum, batch) => sum + (batch.quantity * batch.cost), 0) *)
BatchesValue(batches) ==
    SumSeq([k \in 1..Len(batches) |-> batches[k].quantity * batches[k].cost])

(* the counter reported as it stands *)
SnapshotGramsUnclamped(totalQuantity) == totalQuantity

(* Math.max(0, totalQuantity) *)
SnapshotGrams(totalQuantity) == Max(0, totalQuantity)

GetInventorySnapshot(invoices, targetDate) ==
    LET relevantInvoices == FilterSort("snapshot", invoices, targetDate).sorted
        end == SnapshotWalk(relevantInvoices, Len(relevantInvoices))
    IN  [grams |-> SnapshotGrams(end.totalQuantity),
         value |-> BatchesValue(end.batches)]

----------------------------------------------------------------------------
(* performFullSystemAudit *)

(* inv.type === 'PURCHASE' ? acc + inv.quantityGrams : acc - inv.quantityGrams *)
SignedQuantity(inv) ==
    IF inv.type = PURCHASE THEN inv.quantityGrams ELSE 0 - inv.quantityGrams

(* the recomputed stock kept from going below zero *)
StockCheckClamped(invoices) ==
    Max(0, SumSeq([k \in 1..Len(invoices) |-> SignedQuantity(invoices[k])]))

(* invoices.reduce(..., 0) *)
StockCheck(invoices) ==
    SumSeq([k \in 1..Len(invoices) |-> SignedQuantity(invoices[k])])

(* Math.abs(stockCheck - currentStock) > 0.001 *)
StockMismatch(stockCheck, currentStock) ==
    ExceedsFraction(Abs(stockCheck - currentStock), AuditTolDen)

(* [...invoices].sort((a, b) => a.date.localeCompare(b.date)) *)
AuditSorted(invoices) == SpreadSort("audit", invoices).sorted

(* runningStock after the first n invoices of the walk *)
RunningStock(srt, n) == SumSeq([k \in 1..n |-> SignedQuantity(srt[k])])

(* runningStock < -0.0001 *)
DippedBelowZero(runningStock) == ExceedsFraction(0 - runningStock, NegTolDen)

NegativeStockCount(invoices) ==
    LET srt == AuditSorted(invoices)
    IN  Cardinality({n \in 1..Len(srt) : DippedBelowZero(RunningStock(srt, n))})

(* the check of the unit price left out *)
HasMissingFieldsButRate(i) ==
    i.partyName = "" \/ i.date = 0 \/ i.quantityGrams <= 0

(* !i.partyName || !i.date || i.quantityGrams <= 0 || i.ratePerGram <= 0 *)
HasMissingFields(i) ==
    i.partyName = "" \/ i.date = 0 \/ i.quantityGrams <= 0 \/ i.ratePerGram <= 0

MissingFieldsCount(invoices) ==
    Cardinality({k \in 1..Len(invoices) : HasMissingFields(invoices[k])})

PerformFullSystemAudit(invoices, currentStock, currentValue) ==
    LET stockCheck == StockCheck(invoices)
        mismatch == StockMismatch(stockCheck, currentStock)
        negativeStockCount == NegativeStockCount(invoices)
        missing == MissingFieldsCount(invoices)
        issues ==
            (IF mismatch
             THEN <<[kind |-> "Stock Mismatch", a |-> stockCheck, b |-> currentStock]>>
             ELSE <<>>)
            \o (IF negativeStockCount > 0
                THEN <<[kind |-> "Negative Stock Detected", a |-> negativeStockCount, b |-> 0]>>
                ELSE <<>>)
            \o (IF missing > 0
                THEN <<[kind |-> "Data Integrity", a |-> missing, b |-> 0]>>
                ELSE <<>>)
        score == FullScore
                 - (IF mismatch THEN StockPenalty ELSE 0)
                 - (IF negativeStockCount > 0 THEN NegativePenalty ELSE 0)
                 - (IF missing > 0 THEN IntegrityPenalty ELSE 0)
    IN  [totalInvoices |-> Len(invoices),
         dataIntegrityIssues |-> issues,
         healthScore |-> Max(0, score),
         recalculatedStock |-> stockCheck,
         recalculatedValue |-> currentValue]

----------------------------------------------------------------------------
(* Analytics: calculateStockAging, calculateSupplierStats,                 *)
(* calculateTurnoverStats                                                  *)

RECURSIVE GCD(_, _)
GCD(a, b) == IF b = 0 THEN a ELSE GCD(b, a % b)

Sign(x) == IF x > 0 THEN 1 ELSE IF x < 0 THEN -1 ELSE 0

(* x / y on numbers: the quotient in lowest terms; den = 0 is the Infinity *)
(* or NaN a division by zero gives                                          *)
Divide(x, y) ==
    IF y = 0 THEN [num |-> Sign(x), den |-> 0]
    ELSE LET g == GCD(Abs(x), Abs(y))
         IN  [num |-> (Sign(y) * x) \div g, den |-> Abs(y) \div g]

(* a number that is no quotient *)
Number(x) == [num |-> x, den |-> 1]

(* new Date(): the clock is a day and whether midnight has passed; a date *)
(* string is the midnight that starts its day; both in half days          *)
ClockTime(now) == 2 * now.day + (IF now.afterMidnight THEN 1 ELSE 0)

DateTime(date) == 2 * date

(* Math.floor(diffTime / (1000 * 60 * 60 * 24)) *)
DiffDaysFloor(now, date) == Abs(ClockTime(now) - DateTime(date)) \div 2

(* Math.ceil(Math.abs(now.getTime() - batchDate.getTime()) / (1000 * 60 * 60 * 24)) *)
DiffDays(now, date) == (Abs(ClockTime(now) - DateTime(date)) + 1) \div 2

BucketNames == {"0-7", "8-15", "16-30", "30+"}

(* if (diffDays <= 7) ... else if (diffDays <= 15) ... else if (diffDays <= 30) ... else *)
BucketOf(diffDays) ==
    IF diffDays <= 7 THEN "0-7"
    ELSE IF diffDays <= 15 THEN "8-15"
    ELSE IF diffDays <= 30 THEN "16-30"
    ELSE "30+"

(* inventory.forEach(batch => { ... }) over the first n batches *)
RECURSIVE AgingWalk(_, _, _)
AgingWalk(inventory, now, n) ==
    IF n = 0
    THEN [buckets |-> [b \in BucketNames |-> 0], totalDaysWeighted |-> 0, totalStock |-> 0]
    ELSE LET before == AgingWalk(inventory, now, n - 1)
             batch == inventory[n]
             diffDays == DiffDays(now, batch.date)
         IN  IF batch.remainingQuantity <= 0 THEN before
             ELSE [buckets |-> [before.buckets EXCEPT ![BucketOf(diffDays)] =
                                    @ + batch.remainingQuantity],
                   totalDaysWeighted |-> before.totalDaysWeighted
                                           + diffDays * batch.remainingQuantity,
                   totalStock |-> before.totalStock + batch.remainingQuantity]

CalculateStockAging(inventory, now) ==
    LET end == AgingWalk(inventory, now, Len(inventory))
    IN  [buckets |-> end.buckets,
         weightedAvgDays |-> IF end.totalStock > 0
                             THEN Divide(end.totalDaysWeighted, end.totalStock)
                             ELSE Number(0)]

(* invoices.filter(i => i.type === 'PURCHASE') *)
RECURSIVE FilterPurchases(_)
FilterPurchases(invoices) ==
    IF invoices = <<>> THEN <<>>
    ELSE IF Last(invoices).type = PURCHASE
         THEN Append(FilterPurchases(Front(invoices)), Last(invoices))
         ELSE FilterPurchases(Front(invoices))

(* const stats: Record<string, ...> = {}: an object literal, whose lookups *)
(* fall through to the members every object inherits                       *)
InheritedKeys ==
    {"constructor", "__proto__", "hasOwnProperty", "isPrototypeOf",
     "propertyIsEnumerable", "toLocaleString", "toString", "valueOf"}

(* the position of stats' own entry for name; 0 when it has none *)
OwnIndex(stats, name) ==
    IF \E k \in 1..Len(stats) : stats[k].name = name
    THEN CHOOSE k \in 1..Len(stats) : stats[k].name = name
    ELSE 0

(* !stats[inv.partyName]: nothing is found under the name, neither an own *)
(* entry nor an inherited member                                          *)
NotInStats(stats, name) == OwnIndex(stats, name) = 0 /\ name \notin InheritedKeys

(* .forEach(inv => { ... }) over the first n purchases; stats holds the    *)
(* object's own entries in the order they were created.  An inherited      *)
(* member found under the name has no rates array, and rates.push on it    *)
(* throws a TypeError out of the function                                  *)
RECURSIVE GroupWalk(_, _)
GroupWalk(purchases, n) ==
    IF n = 0 THEN [thrown |-> FALSE, stats |-> <<>>]
    ELSE LET before == GroupWalk(purchases, n - 1)
             inv == purchases[n]
             name == inv.partyName
         IN  IF before.thrown THEN before
             ELSE IF ~NotInStats(before.stats, name) /\ OwnIndex(before.stats, name) = 0
             THEN [thrown |-> TRUE, stats |-> before.stats]
             ELSE LET stats0 == IF NotInStats(before.stats, name)
                                THEN Append(before.stats,
                                            [name |-> name, totalGrams |-> 0,
                                             totalCost |-> 0, count |-> 0, rates |-> <<>>])
                                ELSE before.stats
                      k == OwnIndex(stats0, name)
                  IN  [thrown |-> FALSE,
                       stats |-> [stats0 EXCEPT ![k] =
                           [name |-> name,
                            totalGrams |-> @.totalGrams + inv.quantityGrams,
                            totalCost |-> @.totalCost + inv.quantityGrams * inv.ratePerGram,
                            count |-> @.count + 1,
                            rates |-> Append(@.rates, inv.ratePerGram)]]]

(* Math.min(...data.rates), Math.max(...data.rates) *)
RECURSIVE MinOf(_)
MinOf(rates) ==
    IF Len(rates) = 1 THEN rates[1] ELSE Min(Last(rates), MinOf(Front(rates)))

RECURSIVE MaxOf(_)
MaxOf(rates) ==
    IF Len(rates) = 1 THEN rates[1] ELSE Max(Last(rates), MaxOf(Front(rates)))

(* ([name, data]) => { ... } *)
SupplierStat(data) ==
    [name |-> data.name,
     totalGramsPurchased |-> data.totalGrams,
     avgRate |-> IF data.totalGrams > 0 THEN Divide(data.totalCost, data.totalGrams)
                 ELSE Number(0),
     minRate |-> MinOf(data.rates),
     maxRate |-> MaxOf(data.rates),
     volatility |-> MaxOf(data.rates) - MinOf(data.rates),
     txCount |-> data.count]

(* the result, or the TypeError thrown out of the function *)
CalculateSupplierStats(invoices) ==
    LET purchases == FilterPurchases(invoices)
        grouped == GroupWalk(purchases, Len(purchases))
    IN  IF grouped.thrown THEN [thrown |-> TRUE, entries |-> <<>>]
        ELSE [thrown |-> FALSE,
              entries |-> ArraySort("supplier",
                             [k \in 1..Len(grouped.stats) |-> SupplierStat(grouped.stats[k])])]

(* invoices.filter(i => i.date >= startDate && i.date <= endDate) *)
(*         .filter(i => i.type === 'SALE')                        *)
RECURSIVE PeriodSales(_, _, _)
PeriodSales(invoices, startDate, endDate) ==
    IF invoices = <<>> THEN <<>>
    ELSE LET i == Last(invoices)
             rest == PeriodSales(Front(invoices), startDate, endDate)
         IN  IF i.date >= startDate /\ i.date <= endDate /\ i.type = SALE
             THEN Append(rest, i) ELSE rest

(* s.cogs || 0 *)
CogsOrZero(s) == IF "cogs" \in DOMAIN s THEN s.cogs ELSE 0

(* calculateInventoryValueOnDate *)
CalculateInventoryValueOnDate(invoices, targetDate) ==
    GetInventorySnapshot(invoices, targetDate).value

(* x / y on two quotients *)
DivideBy(x, y) == Divide(x.num * y.den, x.den * y.num)

(* x >= 0: the guard lets a zero through *)
IsNotNegative(x) == x.num >= 0

(* x > 0 *)
IsPositive(x) == x.num > 0

(* the days of the window counted with both ends *)
DaysInPeriodInclusive(startDate, endDate) == endDate - startDate + 1

(* Math.max(1, (end.getTime() - start.getTime()) / (1000 * 3600 * 24)) *)
DaysInPeriod(startDate, endDate) == Max(1, endDate - startDate)

CalculateTurnoverStats(invoices, startDate, endDate) ==
    LET sales == PeriodSales(invoices, startDate, endDate)
        totalCOGS == SumSeq([k \in 1..Len(sales) |-> CogsOrZero(sales[k])])
        startInventoryVal == CalculateInventoryValueOnDate(invoices, startDate)
        endInventoryVal == CalculateInventoryValueOnDate(invoices, endDate)
        avgInventoryValue == Divide(startInventoryVal + endInventoryVal, 2)
        turnoverRatio == IF IsPositive(avgInventoryValue)
                         THEN DivideBy(Number(totalCOGS), avgInventoryValue)
                         ELSE Number(0)
        daysInPeriod == DaysInPeriod(startDate, endDate)
        avgDaysToSell == IF IsPositive(turnoverRatio)
                         THEN DivideBy(Number(daysInPeriod), turnoverRatio)
                         ELSE Number(0)
    IN  [turnoverRatio |-> turnoverRatio,
         avgDaysToSell |-> avgDaysToSell,
         avgInventoryValue |-> avgInventoryValue,
         totalCOGS |-> Number(totalCOGS)]

----------------------------------------------------------------------------
(* Inputs *)

(* the tax the form adds to the taxable amount: 3 percent, and never nothing *)
GstOn(taxable) == 1 + 3 * (taxable \div 100)

Invoice(id, date, createdAt, type, qty, rate, taxable) ==
    [id |-> id, date |-> date, createdAt |-> createdAt, type |-> type,
     partyName |-> "party", quantityGrams |-> qty, ratePerGram |-> rate,
     taxableAmount |-> taxable, gstAmount |-> GstOn(taxable),
     totalAmount |-> taxable + GstOn(taxable)]

(* the model's dates and quantities: the smallest and the largest *)
Dates == {1, MaxDate}

Quantities == {1, MaxQty}

(* purchase prices differ from batch to batch *)
RateOf(id) == 5 + id

SaleRateOf(id) == RateOf(id) + 3

Taxables == {0, 20}

(* records without a creation timestamp: every date, quantity and kind *)
LedgerRecords(id) ==
    {Invoice(id, d, 0, PURCHASE, q, RateOf(id), q * RateOf(id)) :
        d \in Dates, q \in Quantities}
    \cup
    {Invoice(id, d, 0, SALE, q, SaleRateOf(id), t) :
        d \in Dates, q \in Quantities, t \in Taxables}

LedgerInputs ==
    UNION {{arr \in [1..n -> UNION {LedgerRecords(id) : id \in 1..n}] :
                \A k \in 1..n : arr[k].id = k} : n \in 1..MaxTx}

(* the worked examples: 100 g at 6000 then a sale of 40 g for 260000; *)
(* 10 g at 6000 then a sale of 15 g                                    *)
ScenarioA ==
    <<Invoice(1, 1, 0, PURCHASE, 100 * UnitsPerGram, 6000, 600000 * UnitsPerGram),
      Invoice(2, 5, 0, SALE, 40 * UnitsPerGram, 6500, 260000 * UnitsPerGram)>>

ScenarioB ==
    <<Invoice(1, 1, 0, PURCHASE, 10 * UnitsPerGram, 6000, 60000 * UnitsPerGram),
      Invoice(2, 2, 0, SALE, 15 * UnitsPerGram, 6500, 97500 * UnitsPerGram)>>

Inputs == LedgerInputs \cup {ScenarioA, ScenarioB}

(* three records with or without creation timestamps, in every array order *)
OrderingRecords(id) ==
    {Invoice(id, d, c, PURCHASE, 2, 5 + id, 2 * (5 + id)) : d \in 1..2, c \in 0..2}
    \cup
    {Invoice(id, d, c, SALE, 1, SaleRateOf(id), 20) : d \in 1..2, c \in 0..2}

OrderingInputs ==
    {arr \in [1..3 -> UNION {OrderingRecords(id) : id \in 1..3}] :
        \A j, k \in 1..3 : j # k => arr[j].id # arr[k].id}

(* records the entry form would not let through: a field left blank, a *)
(* quantity or a price that is not positive                             *)
FieldFaults == {"none", "party", "date", "quantity", "negative", "rate"}

Faulty(inv, fault) ==
    CASE fault = "party"    -> [inv EXCEPT !.partyName = ""]
      [] fault = "date"     -> [inv EXCEPT !.date = 0]
      [] fault = "quantity" -> [inv EXCEPT !.quantityGrams = 0]
      [] fault = "negative" -> [inv EXCEPT !.quantityGrams = 0 - MaxQty]
      [] fault = "rate"     -> [inv EXCEPT !.ratePerGram = 0]
      [] OTHER              -> inv

MalformedRecords(id) ==
    {Faulty(Invoice(id, 1, 0, PURCHASE, MaxQty, RateOf(id), MaxQty * RateOf(id)), f) :
        f \in FieldFaults}
    \cup
    {Faulty(Invoice(id, MaxDate, 0, SALE, 1, SaleRateOf(id), 20), f) : f \in FieldFaults}

MalformedInputs ==
    UNION {{arr \in [1..n -> UNION {MalformedRecords(id) : id \in 1..n}] :
                \A k \in 1..n : arr[k].id = k} : n \in 1..MaxTx}

(* clocks that put the batches on both sides of every bucket limit, and *)
(* one before the first date                                            *)
AgingClocks ==
    {[day |-> MaxDate + a, afterMidnight |-> h] :
        a \in {0, 6, 7, 14, 15, 29, 30}, h \in BOOLEAN}
    \cup {[day |-> 0, afterMidnight |-> FALSE]}

(* purchases from parties of any name, and sales *)
PartyNames == {"Asha", "Bina", "constructor"}

SupplierRecords(id) ==
    {[Invoice(id, 1, 0, PURCHASE, q, RateOf(id), q * RateOf(id)) EXCEPT !.partyName = p] :
        q \in Quantities, p \in PartyNames}
    \cup {Invoice(id, MaxDate, 0, SALE, 1, SaleRateOf(id), 20)}

SupplierInputs ==
    UNION {{arr \in [1..n -> UNION {SupplierRecords(id) : id \in 1..n}] :
                \A k \in 1..n : arr[k].id = k} : n \in 1..MaxTx}

(* the ends of the report window: before, on and after the ledger's dates *)
WindowDates == {0} \cup Dates \cup {MaxDate + 3}

(* the ledgers, the worked examples and the ledger with nothing in it *)
TurnoverInputs == Inputs \cup {<<>>}

----------------------------------------------------------------------------
(* State machine *)

None == <<>>

Some(x) == <<x>>

TypeOK ==
    /\ pc \in {"start", "loop", "done"}
    /\ idx \in 0..Len(sorted)
    /\ Len(processedInvoices) = idx

InitWith(inputs) ==
    /\ orders = None
    /\ engine \in SortEngines
    /\ allInvoices \in inputs
    /\ pc = "start"
    /\ sorted = <<>>
    /\ idx = 0
    /\ currentInventory = <<>>
    /\ processedInvoices = <<>>
    /\ prev = None
    /\ snapshotData = None
    /\ auditReport = None
    /\ agingStats = None
    /\ supplierData = None
    /\ turnoverStats = None

Init == InitWith(Inputs)

InitOrdering == InitWith(OrderingInputs)

InitMalformed == InitWith(MalformedInputs)

InitSupplier == InitWith(SupplierInputs)

InitTurnover == InitWith(TurnoverInputs)

(* const sorted = [...allInvoices].sort(...); let currentInventory = []; *)
(* const processedInvoices = []                                          *)
Start ==
    /\ pc = "start"
    /\ LET copy == SpreadSort("replay", allInvoices)
       IN  /\ sorted' = copy.sorted
           /\ allInvoices' = copy.array
    /\ currentInventory' = FreshInventory(currentInventory)
    /\ processedInvoices' = <<>>
    /\ idx' = 0
    /\ pc' = "loop"
    /\ UNCHANGED <<orders, engine, prev, snapshotData, auditReport, analytics>>

(* one iteration of the for-loop, inv.type === 'PURCHASE' *)
StepPurchase ==
    /\ pc = "loop"
    /\ idx < Len(sorted)
    /\ sorted[idx + 1].type = PURCHASE
    /\ LET step == ProcessPurchase(currentInventory, sorted[idx + 1])
       IN  /\ currentInventory' = step.inventory
           /\ processedInvoices' = Append(processedInvoices, step.invoice)
    /\ idx' = idx + 1
    /\ UNCHANGED <<orders, engine, allInvoices, pc, sorted, prev, snapshotData, auditReport,
                   analytics>>

(* one iteration of the for-loop, the else branch *)
StepSale ==
    /\ pc = "loop"
    /\ idx < Len(sorted)
    /\ sorted[idx + 1].type # PURCHASE
    /\ LET step == ProcessSale(currentInventory, sorted[idx + 1])
       IN  /\ currentInventory' = step.inventory
           /\ processedInvoices' = Append(processedInvoices, step.invoice)
    /\ idx' = idx + 1
    /\ UNCHANGED <<orders, engine, allInvoices, pc, sorted, prev, snapshotData, auditReport,
                   analytics>>

(* return { updatedInvoices: processedInvoices, updatedInventory: currentInventory } *)
Return ==
    /\ pc = "loop"
    /\ idx = Len(sorted)
    /\ pc' = "done"
    /\ UNCHANGED <<orders, engine, allInvoices, sorted, idx, currentInventory, processedInvoices,
                   prev, snapshotData, auditReport, analytics>>

Result == [updatedInvoices |-> processedInvoices, updatedInventory |-> currentInventory]

(* searchFilteredInventory.reduce((acc, batch) => acc + batch.remainingQuantity, 0) *)
CurrentStock(inventory) ==
    SumSeq([k \in 1..Len(inventory) |-> inventory[k].remainingQuantity])

(* ...reduce((acc, batch) => acc + (batch.remainingQuantity * batch.costPerGram), 0) *)
FifoValue(inventory) ==
    SumSeq([k \in 1..Len(inventory) |->
                inventory[k].remainingQuantity * inventory[k].costPerGram])

MaxDateOf(invoices) ==
    IF invoices = <<>> THEN 0
    ELSE CHOOSE d \in {invoices[k].date : k \in 1..Len(invoices)} :
            \A k \in 1..Len(invoices) : invoices[k].date <= d

(* getInventorySnapshot(invoices, snapshotDate) *)
Snapshot(targetDate) ==
    /\ pc = "done"
    /\ snapshotData' = Some([targetDate |-> targetDate,
                             result |-> GetInventorySnapshot(allInvoices, targetDate)])
    /\ allInvoices' = FilterSort("snapshot", allInvoices, targetDate).array
    /\ UNCHANGED <<orders, engine, pc, sorted, idx, currentInventory, processedInvoices,
                   prev, auditReport, analytics>>

(* performFullSystemAudit(invoices, currentStock, fifoValue) *)
Audit(currentStock) ==
    /\ pc = "done"
    /\ auditReport' = Some([currentStock |-> currentStock,
                            report |-> PerformFullSystemAudit(allInvoices, currentStock,
                                                              FifoValue(currentInventory))])
    /\ allInvoices' = SpreadSort("audit", allInvoices).array
    /\ UNCHANGED <<orders, engine, pc, sorted, idx, currentInventory, processedInvoices,
                   prev, snapshotData, analytics>>

(* calculateStockAging(searchFilteredInventory), no search query typed *)
Aging(now) ==
    /\ pc = "done"
    /\ agingStats' = Some([now |-> now,
                           stats |-> CalculateStockAging(currentInventory, now)])
    /\ UNCHANGED <<orders, engine, allInvoices, pc, sorted, idx, currentInventory,
                   processedInvoices, prev, snapshotData, auditReport,
                   supplierData, turnoverStats>>

(* calculateSupplierStats(filteredInvoices), every invoice within the filter *)
Supplier ==
    /\ supplierData' = Some(CalculateSupplierStats(allInvoices))
    /\ UNCHANGED <<orders, engine, allInvoices, pc, sorted, idx, currentInventory,
                   processedInvoices, prev, snapshotData, auditReport,
                   agingStats, turnoverStats>>

(* the invoices state: setInvoices(updatedInvoices.reverse()) *)
InvoicesState == Reverse(processedInvoices)

(* calculateTurnoverStats(invoices, dateRange.start, dateRange.end) *)
Turnover(startDate, endDate) ==
    /\ pc = "done"
    /\ turnoverStats' = Some([startDate |-> startDate, endDate |-> endDate,
                              stats |-> CalculateTurnoverStats(InvoicesState,
                                                               startDate, endDate)])
    /\ UNCHANGED <<orders, engine, allInvoices, pc, sorted, idx, currentInventory,
                   processedInvoices, prev, snapshotData, auditReport,
                   agingStats, supplierData>>

SnapshotDates == {0} \cup Dates \cup {MaxDateOf(allInvoices)}

ReportedStocks == {0, CurrentStock(currentInventory)}

Next ==
    \/ Start
    \/ StepPurchase
    \/ StepSale
    \/ Return
    \/ \E targetDate \in SnapshotDates : Snapshot(targetDate)
    \/ \E currentStock \in ReportedStocks : Audit(currentStock)

Spec == Init /\ [][Next]_vars

SpecOrdering == InitOrdering /\ [][Next]_vars

SpecMalformed == InitMalformed /\ [][Next]_vars

NextAging ==
    \/ Start
    \/ StepPurchase
    \/ StepSale
    \/ Return
    \/ \E now \in AgingClocks : Aging(now)

SpecAging == Init /\ [][NextAging]_vars

NextSupplier == Supplier

NextTurnover ==
    \/ Start
    \/ StepPurchase
    \/ StepSale
    \/ Return
    \/ \E startDate, endDate \in WindowDates : Turnover(startDate, endDate)

SpecTurnover == InitTurnover /\ [][NextTurnover]_vars

SpecSupplier == InitSupplier /\ [][NextSupplier]_vars

(* a second call on the same, unmodified collection (loadData after loadData) *)
RunAgain ==
    /\ pc = "done"
    /\ prev' = Some(Result)
    /\ pc' = "start"
    /\ UNCHANGED <<orders, engine, allInvoices, sorted, idx, currentInventory, processedInvoices,
                   snapshotData, auditReport, analytics>>

(* setInvoices(updatedInvoices.reverse()) and then recalculateAllData on that  *)
(* state, as handleAddInvoice does with [invoice, ...invoices]                *)
FeedBack ==
    /\ pc = "done"
    /\ allInvoices' = Reverse(processedInvoices)
    /\ prev' = Some(Result)
    /\ pc' = "start"
    /\ UNCHANGED <<orders, engine, sorted, idx, currentInventory, processedInvoices,
                   snapshotData, auditReport, analytics>>

NextRepeated ==
    \/ Start
    \/ StepPurchase
    \/ StepSale
    \/ Return
    \/ RunAgain
    \/ FeedBack

SpecRepeatedOrdering == InitOrdering /\ [][NextRepeated]_vars

----------------------------------------------------------------------------
(* The dashboard: the search box, the totals shown and the audit button *)

(* a string as the array of its characters *)
Chars(str) ==
    CASE str = "" -> <<>>
      [] str = "a" -> <<"a">>
      [] str = "z" -> <<"z">>
      [] str = "asha" -> <<"a", "s", "h", "a">>
      [] str = "ASHA" -> <<"A", "S", "H", "A">>
      [] str = "Asha" -> <<"A", "s", "h", "a">>
      [] str = "Bina" -> <<"B", "i", "n", "a">>
      [] str = "party" -> <<"p", "a", "r", "t", "y">>

LowerOf(c) ==
    CASE c = "A" -> "a"
      [] c = "B" -> "b"
      [] c = "H" -> "h"
      [] c = "S" -> "s"
      [] OTHER -> c

(* String.prototype.toLowerCase *)
ToLowerCase(chars) == [k \in 1..Len(chars) |-> LowerOf(chars[k])]

(* String.prototype.includes *)
Includes(text, query) ==
    \E i \in 0..(Len(text) - Len(query)) : SubSeq(text, i + 1, i + Len(query)) = query

(* invoices.find(inv => inv.id === batch.id) *)
FindInvoice(invoices, id) ==
    LET hits == {k \in 1..Len(invoices) : invoices[k].id = id}
    IN  IF hits = {} THEN None
        ELSE Some(invoices[CHOOSE k \in hits : \A j \in hits : k <= j])

(* const searchFilteredInventory = useMemo(() => { ... }) *)
SearchFilteredInventory(inventory, invoices, searchQuery) ==
    LET query == ToLowerCase(Chars(searchQuery))
    IN  IF query = <<>> THEN inventory
        ELSE SelectSeq(inventory,
                LAMBDA batch :
                    LET invoice == FindInvoice(invoices, batch.id)
                    IN  IF invoice # None
                        THEN Includes(ToLowerCase(Chars(invoice[1].partyName)), query)
                        ELSE FALSE)

(* handleRunAudit with the search box and the date range as they stand: *)
(* performFullSystemAudit(invoices, currentStock, fifoValue)            *)
HandleRunAudit(searchQuery, dateRange) ==
    /\ pc = "done"
    /\ LET shown == SearchFilteredInventory(currentInventory, InvoicesState, searchQuery)
           currentStock == CurrentStock(shown)
           fifoValue == FifoValue(shown)
       IN  auditReport' = Some([searchQuery |-> searchQuery,
                                dateRange |-> dateRange,
                                invoices |-> InvoicesState,
                                currentStock |-> currentStock,
                                currentValue |-> fifoValue,
                                report |-> PerformFullSystemAudit(InvoicesState,
                                                                  currentStock, fifoValue)])
    /\ UNCHANGED <<orders, engine, allInvoices, pc, sorted, idx, currentInventory,
                   processedInvoices, prev, snapshotData, analytics>>

(* purchases from two suppliers on the first day, sales on the last *)
DashboardRecords(id) ==
    {[Invoice(id, 1, 0, PURCHASE, q, RateOf(id), q * RateOf(id)) EXCEPT !.partyName = p] :
        q \in Quantities, p \in {"Asha", "Bina"}}
    \cup {Invoice(id, MaxDate, 0, SALE, 1, SaleRateOf(id), 20)}

DashboardInputs ==
    UNION {{arr \in [1..n -> UNION {DashboardRecords(id) : id \in 1..n}] :
                \A k \in 1..n : arr[k].id = k} : n \in 1..MaxTx}

SearchQueries == {"", "a", "z", "asha", "ASHA"}

DateRanges == {[start |-> 0, end |-> MaxDate], [start |-> MaxDate, end |-> MaxDate]}

InitDashboard == InitWith(DashboardInputs)

NextDashboard ==
    \/ Start
    \/ StepPurchase
    \/ StepSale
    \/ Return
    \/ \E searchQuery \in SearchQueries, dateRange \in DateRanges :
          HandleRunAudit(searchQuery, dateRange)

SpecDashboard == InitDashboard /\ [][NextDashboard]_vars

----------------------------------------------------------------------------
(* The application: loadData and handleAddInvoice set the invoices and the *)
(* inventory states from one call of recalculateAllData                    *)

Ids(orders_) == {orders_[k].id : k \in 1..Len(orders_)}

(* localOrders.filter(lo => !cloudIds.has(lo.id)) *)
UnsyncedLocalOrders(cloudOrders, localOrders) ==
    LET cloudIds == Ids(cloudOrders)
    IN  SelectSeq(localOrders, LAMBDA lo : lo.id \notin cloudIds)

(* let finalOrders = cloudOrders; if (...) ... else if (...) ... *)
FinalOrders(cloudOrders, localOrders) ==
    LET unsyncedLocalOrders == UnsyncedLocalOrders(cloudOrders, localOrders)
    IN  IF Len(cloudOrders) = 0 /\ Len(localOrders) > 0 THEN localOrders
        ELSE IF Len(unsyncedLocalOrders) > 0 THEN cloudOrders \o unsyncedLocalOrders
        ELSE cloudOrders

(* loadData: fetched is None when fetchOrders() returned null *)
LoadData(fetched, localOrders) ==
    /\ pc = "done"
    /\ orders' = Some([cloudOrders |-> fetched, localOrders |-> localOrders])
    /\ allInvoices' = IF fetched = None THEN localOrders
                      ELSE FinalOrders(fetched[1], localOrders)
    /\ pc' = "start"
    /\ UNCHANGED <<engine, sorted, idx, currentInventory, processedInvoices,
                   prev, snapshotData, auditReport, analytics>>

(* handleAddInvoice: recalculateAllData([invoice, ...invoices]) *)
HandleAddInvoice(invoice) ==
    /\ pc = "done"
    /\ Len(InvoicesState) < MaxTx
    /\ invoice.id \notin Ids(InvoicesState)
    /\ orders' = None
    /\ allInvoices' = <<invoice>> \o InvoicesState
    /\ pc' = "start"
    /\ UNCHANGED <<engine, sorted, idx, currentInventory, processedInvoices,
                   prev, snapshotData, auditReport, analytics>>

(* same-day records: with a creation timestamp, without one, as a purchase *)
(* and as a sale                                                           *)
AppRecords(id) ==
    {Invoice(id, 1, c, PURCHASE, MaxQty, RateOf(id), MaxQty * RateOf(id)) :
        c \in {0, (id + 1) % MaxTx}}
    \cup {Invoice(id, 1, 0, SALE, 1, SaleRateOf(id), 20)}

(* the arrays of records with the given ids, each id at most once, in any order *)
ArraysOver(ids) ==
    UNION {{arr \in [1..n -> UNION {AppRecords(id) : id \in ids}] :
                \A j, k \in 1..n : j # k => arr[j].id # arr[k].id} :
           n \in 0..Cardinality(ids)}

CloudIds == {1, 2}

LocalIds == {2, 3}

(* what fetchOrders() returns: null or the orders of the cloud *)
Fetched == {None} \cup {Some(arr) : arr \in ArraysOver(CloudIds)}

LocalStores == ArraysOver(LocalIds)

(* useState<Invoice[]>([]), useState<InventoryBatch[]>([]) *)
InitApp ==
    /\ orders = None
    /\ engine \in SortEngines
    /\ allInvoices = <<>>
    /\ pc = "done"
    /\ sorted = <<>>
    /\ idx = 0
    /\ currentInventory = <<>>
    /\ processedInvoices = <<>>
    /\ prev = None
    /\ snapshotData = None
    /\ auditReport = None
    /\ agingStats = None
    /\ supplierData = None
    /\ turnoverStats = None

NextApp ==
    \/ \E fetched \in Fetched, localOrders \in LocalStores : LoadData(fetched, localOrders)
    \/ \E id \in 1..MaxTx : \E invoice \in AppRecords(id) : HandleAddInvoice(invoice)
    \/ Start
    \/ StepPurchase
    \/ StepSale
    \/ Return

SpecApp == InitApp /\ [][NextApp]_vars

----------------------------------------------------------------------------
(* Vocabulary of the properties *)

Elements(s) == {s[k] : k \in 1..Len(s)}

PermutationsOf(arr) ==
    {[k \in 1..Len(arr) |-> arr[f[k]]] : f \in Permutations(1..Len(arr))}

Remaining(inventory, k) == inventory[k].remainingQuantity

(* total remaining quantity of the batches before batch k *)
StockBefore(inventory, k) ==
    SumSeq([j \in 1..(k - 1) |-> Remaining(inventory, j)])

(* what a first-in-first-out draw of quantity q takes from batch k *)
FifoShare(inventory, k, q) ==
    Min(Remaining(inventory, k), Max(0, q - StockBefore(inventory, k)))

(* the entries of a consumption log that record a draw from a batch *)
RECURSIVE Draws(_)
Draws(log) ==
    IF log = <<>> THEN <<>>
    ELSE IF Last(log).kind = "FROM" THEN Append(Draws(Front(log)), Last(log))
         ELSE Draws(Front(log))

(* the draws a first-in-first-out sale of q makes from the first n batches *)
RECURSIVE FifoDraws(_, _, _)
FifoDraws(inventory, n, q) ==
    IF n = 0 THEN <<>>
    ELSE IF FifoShare(inventory, n, q) > 0
         THEN Append(FifoDraws(inventory, n - 1, q),
                     [kind |-> "FROM", grams |-> FifoShare(inventory, n, q),
                      date |-> inventory[n].date, rate |-> inventory[n].costPerGram])
         ELSE FifoDraws(inventory, n - 1, q)

HasStockout(log) == \E e \in Elements(log) : e.kind = "STOCKOUT"

(* this step is one iteration of the replay loop, on a sale *)
SaleStep == pc = "loop" /\ idx' = idx + 1 /\ sorted[idx + 1].type = SALE

ProcessedSales == {inv \in Elements(processedInvoices) : inv.type = SALE}

----------------------------------------------------------------------------
(* C1: at every point of the replay, after each transaction and at the end, *)
(* every batch has 0 <= remainingQuantity <= originalQuantity and the sum   *)
(* of the remaining quantities is >= 0.                                     *)
C1_BatchesWithinBounds ==
    /\ \A k \in 1..Len(currentInventory) :
          /\ 0 <= currentInventory[k].remainingQuantity
          /\ currentInventory[k].remainingQuantity <= currentInventory[k].originalQuantity
    /\ CurrentStock(currentInventory) >= 0

(* the replay has processed transactions and not yet returned, one batch is *)
(* partly consumed and another is used up                                   *)
C1_Witness ==
    /\ pc = "loop"
    /\ \E k \in 1..Len(currentInventory) :
          /\ 0 < currentInventory[k].remainingQuantity
          /\ currentInventory[k].remainingQuantity < currentInventory[k].originalQuantity
    /\ \E k \in 1..Len(currentInventory) :
          /\ currentInventory[k].remainingQuantity = 0
          /\ currentInventory[k].originalQuantity > 0

(* C2: getInventorySnapshot at the latest transaction date returns the      *)
(* replay's live totals: grams = sum of remainingQuantity, value = sum of   *)
(* remainingQuantity * costPerGram, also after a stockout that a later      *)
(* purchase follows.                                                        *)
C2_SnapshotAtLatestDateIsLive ==
    (pc = "done" /\ snapshotData # None
        /\ snapshotData[1].targetDate = MaxDateOf(allInvoices))
    => /\ snapshotData[1].result.grams = CurrentStock(currentInventory)
       /\ snapshotData[1].result.value = FifoValue(currentInventory)

(* C3: a sale draws from the batches in queue order, min(remaining, still   *)
(* needed) from each batch that has stock, and its cogs is the sum of       *)
(* taken * costPerGram over those batches; 100 g at 6000 then a sale of     *)
(* 40 g leaves 60 g and cogs 240000.                                        *)
C3_SaleDrawsFifo ==
    /\ [][SaleStep =>
            LET inv == sorted[idx + 1]
                q == inv.quantityGrams
                n == Len(currentInventory)
                out == processedInvoices'[idx + 1]
            IN  /\ Len(currentInventory') = n
                /\ \A k \in 1..n :
                      Remaining(currentInventory', k)
                        = Remaining(currentInventory, k) - FifoShare(currentInventory, k, q)
                /\ Draws(out.fifoLog) = FifoDraws(currentInventory, n, q)
                /\ out.cogs = SumSeq([k \in 1..n |->
                      FifoShare(currentInventory, k, q) * currentInventory[k].costPerGram])
         ]_vars
    /\ [](allInvoices = ScenarioA /\ pc = "done"
            => /\ Remaining(currentInventory, 1) = 60 * UnitsPerGram
               /\ processedInvoices[2].cogs = 240000 * UnitsPerGram)

(* a sale has drawn from two batches, leaving the second partly consumed *)
C3_Witness ==
    /\ pc = "done"
    /\ \E inv \in ProcessedSales : Len(Draws(inv.fifoLog)) >= 2
    /\ \E k \in 1..Len(currentInventory) :
          /\ 0 < Remaining(currentInventory, k)
          /\ Remaining(currentInventory, k) < currentInventory[k].originalQuantity

(* C4: a sale of more than the whole remaining stock is still processed:    *)
(* every batch is left with exactly 0, the sale's log carries the stockout  *)
(* warning, its cogs is the cost of the stock that was there, and it is in  *)
(* updatedInvoices; 10 g at 6000 then a sale of 15 g gives cogs 60000.      *)
C4_StockoutAbsorbed ==
    /\ [][(SaleStep /\ sorted[idx + 1].quantityGrams > CurrentStock(currentInventory)) =>
            LET inv == sorted[idx + 1]
                out == processedInvoices'[idx + 1]
            IN  /\ \A k \in 1..Len(currentInventory') :
                      Remaining(currentInventory', k) = 0
                /\ Len(currentInventory') = Len(currentInventory)
                /\ HasStockout(out.fifoLog)
                /\ out.cogs = FifoValue(currentInventory)
                /\ out.id = inv.id
         ]_vars
    /\ [](pc = "done" =>
            \A k \in 1..Len(sorted) : processedInvoices[k].id = sorted[k].id)
    /\ [](allInvoices = ScenarioB /\ pc = "done"
            => /\ Remaining(currentInventory, 1) = 0
               /\ currentInventory[1].closedDate = ScenarioB[2].date
               /\ processedInvoices[2].cogs = 60000 * UnitsPerGram
               /\ HasStockout(processedInvoices[2].fifoLog))

(* a sale ran out of stock after drawing from a batch *)
C4_Witness ==
    /\ pc = "done"
    /\ \E inv \in ProcessedSales : HasStockout(inv.fifoLog) /\ inv.cogs > 0

(* C5, as claimed: every sale's profit is its taxableAmount minus its cogs, *)
(* for every taxableAmount, 0 included.                                     *)
C5_ProfitIsTaxableMinusCogs ==
    \A inv \in ProcessedSales : inv.profit = inv.taxableAmount - inv.cogs

(* C5, amended: every sale's profit is its taxableAmount minus its cogs     *)
(* when the taxableAmount is not 0, and quantityGrams * ratePerGram minus   *)
(* its cogs when the taxableAmount is 0; tax and total amount never enter.  *)
C5_ProfitFromTaxableOrRate ==
    \A inv \in ProcessedSales :
        /\ inv.taxableAmount # 0 => inv.profit = inv.taxableAmount - inv.cogs
        /\ inv.taxableAmount = 0
             => inv.profit = inv.quantityGrams * inv.ratePerGram - inv.cogs

(* sales with and without a taxable amount have been processed, one of them *)
(* with a cost                                                              *)
C5_Witness ==
    /\ pc = "done"
    /\ \E inv \in ProcessedSales : inv.taxableAmount = 0 /\ inv.cogs > 0
    /\ \E inv \in ProcessedSales : inv.taxableAmount # 0

(* C6: the comparator that sorts the transactions is a strict total order   *)
(* over records with distinct ids: antisymmetric, total and transitive,     *)
(* also among same-day records of which only some have a createdAt.         *)
C6_ComparatorIsTotalOrder ==
    \A a, b, c \in Elements(allInvoices) :
        /\ a # b => /\ CompareInvoices(a, b) # 0
                    /\ CompareInvoices(a, b) = 0 - CompareInvoices(b, a)
        /\ (CompareInvoices(a, b) < 0 /\ CompareInvoices(b, c) < 0)
              => CompareInvoices(a, c) < 0
        /\ SnapshotCompare(a, b) = CompareInvoices(a, b)

(* C7: the result of recalculateAllData is the same for every order of the  *)
(* input array.                                                             *)
C7_ResultIndependentOfArrayOrder ==
    pc = "done" =>
        \A arr \in PermutationsOf(allInvoices) : RecalculateAllData(arr) = Result

(* C8: a second run on the same collection, and a run on the annotated list *)
(* the application keeps (updatedInvoices reversed), return what the run    *)
(* before returned.                                                         *)
C8_RepeatedRunSameResult ==
    (pc = "done" /\ prev # None) => Result = prev[1]

HasIssue(report, kind) ==
    \E e \in Elements(report.dataIntegrityIssues) : e.kind = kind

PurchasedTotal(invoices) ==
    SumSeq([k \in 1..Len(invoices) |->
        IF invoices[k].type = PURCHASE THEN invoices[k].quantityGrams ELSE 0])

SoldTotal(invoices) ==
    SumSeq([k \in 1..Len(invoices) |->
        IF invoices[k].type = SALE THEN invoices[k].quantityGrams ELSE 0])

(* C9: the audit's recalculatedStock is the purchased total minus the sold  *)
(* total, not clamped; the Stock Mismatch issue, with its 20 points, is     *)
(* there exactly when that figure and currentStock differ by more than      *)
(* 0.001 g; for 10 g bought, 15 g sold and a live stock of 0 the figure is  *)
(* -5 g and the mismatch is reported.                                       *)
C9_NaiveStockReconciliation ==
    auditReport # None =>
        LET report == auditReport[1].report
            currentStock == auditReport[1].currentStock
            naive == PurchasedTotal(allInvoices) - SoldTotal(allInvoices)
            mismatch == Abs(naive - currentStock) * AuditTolDen > UnitsPerGram
        IN  /\ report.recalculatedStock = naive
            /\ HasIssue(report, "Stock Mismatch") <=> mismatch
            /\ report.healthScore
                 = FullScore - (IF mismatch THEN StockPenalty ELSE 0)
                     - (IF HasIssue(report, "Negative Stock Detected")
                        THEN NegativePenalty ELSE 0)
                     - (IF HasIssue(report, "Data Integrity")
                        THEN IntegrityPenalty ELSE 0)
            /\ (allInvoices = ScenarioB /\ currentStock = 0)
                  => /\ report.recalculatedStock = 0 - 5 * UnitsPerGram
                     /\ HasIssue(report, "Stock Mismatch")

(* the audit ran with the live stock after a stockout, found a negative     *)
(* recomputed stock and reported the mismatch                               *)
C9_Witness ==
    /\ auditReport # None
    /\ auditReport[1].currentStock = CurrentStock(currentInventory)
    /\ auditReport[1].report.recalculatedStock < 0
    /\ HasIssue(auditReport[1].report, "Stock Mismatch")

(* C10: the audit reports Negative Stock exactly when the running total,    *)
(* taken in the order of the replay (date, createdAt, id), goes below zero  *)
(* at some step, and the verdict is the same for every order of the input   *)
(* array.                                                                   *)
C10_NegativeStockInLedgerOrder ==
    auditReport # None =>
        LET report == auditReport[1].report
            currentStock == auditReport[1].currentStock
            reported == HasIssue(report, "Negative Stock Detected")
        IN  /\ reported <=> \E n \in 1..Len(sorted) : RunningStock(sorted, n) < 0
            /\ \A arr \in PermutationsOf(allInvoices) :
                  HasIssue(PerformFullSystemAudit(arr, currentStock,
                               FifoValue(currentInventory)),
                           "Negative Stock Detected") <=> reported

(* the three checks of the audit, stated over the collection *)
FailsIntegrity(inv) ==
    \/ inv.partyName = ""
    \/ inv.date = 0
    \/ inv.quantityGrams <= 0
    \/ inv.ratePerGram <= 0

FailingChecks(report, currentStock) ==
    LET naive == PurchasedTotal(allInvoices) - SoldTotal(allInvoices)
    IN  (IF Abs(naive - currentStock) * AuditTolDen > UnitsPerGram THEN {"stock"} ELSE {})
        \cup (IF HasIssue(report, "Negative Stock Detected") THEN {"negative"} ELSE {})
        \cup (IF \E inv \in Elements(allInvoices) : FailsIntegrity(inv)
              THEN {"integrity"} ELSE {})

(* C11: healthScore = max(0, 100 - 20*[stock mismatch] - 15*[negative stock  *)
(* seen] - 10*[some record with a blank party, a blank date, a quantity or  *)
(* a rate that is not positive]); it lies within 0..100, there is one issue *)
(* per failing check, and totalInvoices is the number of transactions.      *)
C11_HealthScore ==
    auditReport # None =>
        LET report == auditReport[1].report
            failing == FailingChecks(report, auditReport[1].currentStock)
        IN  /\ report.healthScore
                 = Max(0, 100 - (IF "stock" \in failing THEN 20 ELSE 0)
                              - (IF "negative" \in failing THEN 15 ELSE 0)
                              - (IF "integrity" \in failing THEN 10 ELSE 0))
            /\ report.healthScore \in 0..100
            /\ Len(report.dataIntegrityIssues) = Cardinality(failing)
            /\ HasIssue(report, "Data Integrity") <=> "integrity" \in failing
            /\ HasIssue(report, "Stock Mismatch") <=> "stock" \in failing
            /\ report.totalInvoices = Len(allInvoices)

(* an audit in which all three checks failed, the last one on a price only *)
C11_Witness ==
    /\ auditReport # None
    /\ Len(auditReport[1].report.dataIntegrityIssues) = 3
    /\ \A inv \in Elements(allInvoices) :
          inv.partyName # "" /\ inv.date # 0 /\ inv.quantityGrams > 0

(* C16: recalculateAllData rejects and drops nothing: after every iteration  *)
(* processedInvoices holds one entry per transaction processed, with the    *)
(* ids of the sorted array in its order, also for a zero or negative        *)
(* quantity and a blank party; every PURCHASE entry has cogs 0, profit 0    *)
(* and an empty fifoLog; the function can always take its next step, and at *)
(* the return there is one entry per input transaction.                     *)
C16_NothingRejected ==
    /\ Len(processedInvoices) = idx
    /\ \A k \in 1..idx :
          /\ processedInvoices[k].id = sorted[k].id
          /\ processedInvoices[k].quantityGrams = sorted[k].quantityGrams
          /\ processedInvoices[k].partyName = sorted[k].partyName
          /\ processedInvoices[k].type = PURCHASE
                => /\ processedInvoices[k].cogs = 0
                   /\ processedInvoices[k].profit = 0
                   /\ processedInvoices[k].fifoLog = <<>>
    /\ \A j, k \in 1..idx : j < k => CompareInvoices(sorted[j], sorted[k]) < 0
    /\ pc # "start" => Elements(sorted) = Elements(allInvoices)
                        /\ Len(sorted) = Len(allInvoices)
    /\ pc # "done" => ENABLED (Start \/ StepPurchase \/ StepSale \/ Return)
    /\ pc = "done" => Len(processedInvoices) = Len(allInvoices)

(* the function returned after a purchase of nothing, a sale of a negative  *)
(* quantity and a record without a party                                    *)
C16_Witness ==
    /\ pc = "done"
    /\ \E inv \in Elements(processedInvoices) :
          inv.type = PURCHASE /\ inv.quantityGrams = 0
    /\ \E inv \in Elements(processedInvoices) :
          inv.type = SALE /\ inv.quantityGrams < 0
    /\ \E inv \in Elements(processedInvoices) : inv.partyName = ""

(* C17: recalculateAllData, getInventorySnapshot and performFullSystemAudit  *)
(* leave the transaction array they are given as it is (elements, order and *)
(* field values), and the snapshot and the audit leave every batch of the   *)
(* live inventory as it is.                                                 *)
C17_InputsAndBatchesUntouched ==
    [][/\ allInvoices' = allInvoices
       /\ pc = "done" => currentInventory' = currentInventory]_vars

(* the replay, a snapshot and an audit have run on an array that is not in *)
(* ledger order and has a sale in it                                       *)
C17_Witness ==
    /\ pc = "done"
    /\ snapshotData # None
    /\ auditReport # None
    /\ sorted # allInvoices
    /\ ProcessedSales # {}

(* C15: the snapshot's grams is max(0, purchased - sold) over the            *)
(* transactions dated up to the cutoff (the counter is clamped in the       *)
(* result only), its value is the cost of what a first-in-first-out walk    *)
(* over those transactions leaves, and the transactions dated after the     *)
(* cutoff change neither figure.                                            *)
C15_SnapshotFigures ==
    snapshotData # None =>
        LET targetDate == snapshotData[1].targetDate
            result == snapshotData[1].result
            upTo == FilterUpTo(allInvoices, targetDate)
        IN  /\ result.grams = Max(0, PurchasedTotal(upTo) - SoldTotal(upTo))
            /\ result.value = FifoValue(RecalculateAllData(upTo).updatedInventory)
            /\ result = GetInventorySnapshot(upTo, targetDate)

(* a snapshot before the latest date, of a ledger in which a sale ran out   *)
(* of stock before a purchase: the clamped counter is below the stock left  *)
C15_Witness ==
    /\ snapshotData # None
    /\ snapshotData[1].targetDate < MaxDateOf(allInvoices)
    /\ snapshotData[1].result.value > 0
    /\ snapshotData[1].result.grams
          < CurrentStock(RecalculateAllData(
                FilterUpTo(allInvoices, snapshotData[1].targetDate)).updatedInventory)

(* C19: with positive quantities a batch has a closedDate exactly when its  *)
(* remainingQuantity is 0, the closedDate is the date of the sale that took *)
(* its last remaining quantity and stays that date, and a sale that takes   *)
(* exactly what a batch has left closes it.                                 *)
C19_ClosedExactlyWhenEmpty ==
    /\ [](\A k \in 1..Len(currentInventory) :
            currentInventory[k].closedDate # 0 <=> Remaining(currentInventory, k) = 0)
    /\ [][SaleStep =>
            LET inv == sorted[idx + 1]
            IN  \A k \in 1..Len(currentInventory) :
                   /\ (Remaining(currentInventory, k) > 0
                         /\ Remaining(currentInventory', k) = 0)
                        => currentInventory'[k].closedDate = inv.date
                   /\ Remaining(currentInventory, k) = 0
                        => currentInventory'[k].closedDate = currentInventory[k].closedDate
                   /\ (Remaining(currentInventory, k) > 0
                         /\ inv.quantityGrams = StockBefore(currentInventory, k)
                                                  + Remaining(currentInventory, k))
                        => /\ Remaining(currentInventory', k) = 0
                           /\ currentInventory'[k].closedDate = inv.date
         ]_vars

(* a sale of exactly what the first batch held has closed it, a later batch *)
(* is open                                                                  *)
C19_Witness ==
    /\ pc = "done"
    /\ Len(currentInventory) >= 2
    /\ currentInventory[1].closedDate # 0
    /\ \E inv \in ProcessedSales :
          /\ inv.quantityGrams = currentInventory[1].originalQuantity
          /\ ~HasStockout(inv.fifoLog)
          /\ inv.date = currentInventory[1].closedDate
    /\ Remaining(currentInventory, 2) > 0

(* the PURCHASE records among the first n of the sorted array, in its order *)
RECURSIVE PurchasesAmong(_, _)
PurchasesAmong(srt, n) ==
    IF n = 0 THEN <<>>
    ELSE IF srt[n].type = PURCHASE THEN Append(PurchasesAmong(srt, n - 1), srt[n])
         ELSE PurchasesAmong(srt, n - 1)

(* this step is one iteration of the replay loop, on a purchase *)
PurchaseStep == pc = "loop" /\ idx' = idx + 1 /\ sorted[idx + 1].type = PURCHASE

(* C20: a PURCHASE appends one batch at the tail, with the purchase's id    *)
(* and date, originalQuantity = remainingQuantity = quantityGrams and       *)
(* costPerGram = ratePerGram; a SALE creates none; no batch is ever         *)
(* removed or reordered, so the inventory has one batch per PURCHASE        *)
(* processed, in sorted order.                                              *)
C20_OneBatchPerPurchase ==
    /\ [][PurchaseStep =>
            LET inv == sorted[idx + 1]
                n == Len(currentInventory)
            IN  /\ Len(currentInventory') = n + 1
                /\ SubSeq(currentInventory', 1, n) = currentInventory
                /\ currentInventory'[n + 1].id = inv.id
                /\ currentInventory'[n + 1].date = inv.date
                /\ currentInventory'[n + 1].originalQuantity = inv.quantityGrams
                /\ currentInventory'[n + 1].remainingQuantity = inv.quantityGrams
                /\ currentInventory'[n + 1].costPerGram = inv.ratePerGram
         ]_vars
    /\ [][(pc = "loop" /\ ~PurchaseStep) =>
            /\ Len(currentInventory') = Len(currentInventory)
            /\ \A k \in 1..Len(currentInventory) :
                  /\ currentInventory'[k].id = currentInventory[k].id
                  /\ currentInventory'[k].date = currentInventory[k].date
                  /\ currentInventory'[k].originalQuantity
                        = currentInventory[k].originalQuantity
                  /\ currentInventory'[k].costPerGram = currentInventory[k].costPerGram
         ]_vars
    /\ [](pc # "start" =>
            LET purchases == PurchasesAmong(sorted, idx)
            IN  /\ Len(currentInventory) = Len(purchases)
                /\ \A k \in 1..Len(purchases) :
                      currentInventory[k].id = purchases[k].id)

(* two purchases and a sale between them have been processed *)
C20_Witness ==
    /\ pc = "done"
    /\ Len(currentInventory) = 2
    /\ Len(sorted) = 3
    /\ sorted[2].type = SALE
    /\ processedInvoices[2].cogs > 0

(* the age of a date in whole days: the least number of days that covers *)
(* the time between the clock and the midnight that starts the date      *)
AgeInDays(now, date) ==
    LET elapsed == Abs(ClockTime(now) - DateTime(date))
    IN  CHOOSE n \in 0..elapsed : 2 * n >= elapsed /\ (n = 0 \/ 2 * (n - 1) < elapsed)

BucketRange(b) ==
    CASE b = "0-7"   -> [from |-> 0, to |-> 7]
      [] b = "8-15"  -> [from |-> 8, to |-> 15]
      [] b = "16-30" -> [from |-> 16, to |-> 30]
      [] b = "30+"   -> [from |-> 31, to |-> 31 + 2 * MaxDate + 60]

(* C12: every batch with remainingQuantity > 0 is added to exactly the      *)
(* bucket of its age in whole days (0..7, 8..15, 16..30, over 30), a batch  *)
(* with nothing left to none, so the four buckets sum to the remaining      *)
(* quantity of the active batches; weightedAvgDays is the mean age weighted *)
(* by remaining quantity, and 0 when no batch is active.                    *)
C12_AgingBuckets ==
    agingStats # None =>
        LET now == agingStats[1].now
            stats == agingStats[1].stats
            active == {k \in 1..Len(currentInventory) : Remaining(currentInventory, k) > 0}
            in(b) == {k \in active :
                        /\ AgeInDays(now, currentInventory[k].date) >= BucketRange(b).from
                        /\ AgeInDays(now, currentInventory[k].date) <= BucketRange(b).to}
            gramsOf(ks) == SumSeq([k \in 1..Len(currentInventory) |->
                              IF k \in ks THEN Remaining(currentInventory, k) ELSE 0])
            weighted == SumSeq([k \in 1..Len(currentInventory) |->
                              IF k \in active
                              THEN AgeInDays(now, currentInventory[k].date)
                                     * Remaining(currentInventory, k)
                              ELSE 0])
        IN  /\ DOMAIN stats.buckets = BucketNames
            /\ \A b \in BucketNames : stats.buckets[b] = gramsOf(in(b))
            /\ stats.buckets["0-7"] + stats.buckets["8-15"] + stats.buckets["16-30"]
                  + stats.buckets["30+"] = gramsOf(active)
            /\ stats.weightedAvgDays.den > 0
            /\ stats.weightedAvgDays.num * gramsOf(active)
                  = weighted * stats.weightedAvgDays.den
            /\ active = {} => stats.weightedAvgDays = Number(0)

(* batches of two ages fall into two buckets, one of them partly consumed *)
C12_Witness ==
    /\ agingStats # None
    /\ agingStats[1].now.afterMidnight
    /\ agingStats[1].stats.buckets["0-7"] > 0
    /\ agingStats[1].stats.buckets["8-15"] > 0
    /\ \E k \in 1..Len(currentInventory) :
          /\ 0 < Remaining(currentInventory, k)
          /\ Remaining(currentInventory, k) < currentInventory[k].originalQuantity

PurchasesOf(name) ==
    {k \in 1..Len(allInvoices) :
        allInvoices[k].type = PURCHASE /\ allInvoices[k].partyName = name}

SuppliersOf(invoices) ==
    {invoices[k].partyName : k \in {j \in 1..Len(invoices) : invoices[j].type = PURCHASE}}

SumOver(ks, f(_)) ==
    SumSeq([k \in 1..Len(allInvoices) |-> IF k \in ks THEN f(k) ELSE 0])

QuantityAt(k) == allInvoices[k].quantityGrams

CostAt(k) == allInvoices[k].quantityGrams * allInvoices[k].ratePerGram

(* C18: calculateSupplierStats returns exactly one entry per party name     *)
(* among the PURCHASE records (SALE records do not count), with             *)
(* totalGramsPurchased the sum of its quantities, avgRate the sum of        *)
(* quantity * rate over that sum, minRate and maxRate the extreme rates,    *)
(* volatility their difference and txCount its number of purchases; the     *)
(* entries come in descending order of totalGramsPurchased and the txCount  *)
(* values sum to the number of PURCHASE records.                            *)
C18_SupplierStats ==
    supplierData # None =>
        LET entries == supplierData[1].entries
        IN  /\ ~supplierData[1].thrown
            /\ {entries[k].name : k \in 1..Len(entries)} = SuppliersOf(allInvoices)
            /\ Len(entries) = Cardinality(SuppliersOf(allInvoices))
            /\ \A k \in 1..Len(entries) :
                  LET e == entries[k]
                      ks == PurchasesOf(e.name)
                  IN  /\ e.totalGramsPurchased = SumOver(ks, QuantityAt)
                      /\ e.avgRate.den > 0
                      /\ e.avgRate.num * SumOver(ks, QuantityAt)
                            = SumOver(ks, CostAt) * e.avgRate.den
                      /\ \A j \in ks : /\ e.minRate <= allInvoices[j].ratePerGram
                                        /\ e.maxRate >= allInvoices[j].ratePerGram
                      /\ \E j \in ks : e.minRate = allInvoices[j].ratePerGram
                      /\ \E j \in ks : e.maxRate = allInvoices[j].ratePerGram
                      /\ e.volatility = e.maxRate - e.minRate
                      /\ e.txCount = Cardinality(ks)
            /\ \A j, k \in 1..Len(entries) :
                  j < k => entries[j].totalGramsPurchased >= entries[k].totalGramsPurchased
            /\ SumSeq([k \in 1..Len(entries) |-> entries[k].txCount])
                  = Len(FilterPurchases(allInvoices))

(* a quotient that no division by zero has produced *)
IsFinite(x) == x.den > 0

(* C13: turnoverRatio is 0 whenever the average inventory value is 0 and    *)
(* avgDaysToSell is 0 whenever turnoverRatio is 0, for every collection     *)
(* (the empty one too) and every window (without sales, with start = end,   *)
(* with the ends swapped); no figure comes out of a division by zero.       *)
C13_TurnoverZeroGuards ==
    turnoverStats # None =>
        LET stats == turnoverStats[1].stats
        IN  /\ IsFinite(stats.turnoverRatio)
            /\ IsFinite(stats.avgDaysToSell)
            /\ IsFinite(stats.avgInventoryValue)
            /\ IsFinite(stats.totalCOGS)
            /\ stats.avgInventoryValue.num = 0 => stats.turnoverRatio = Number(0)
            /\ stats.turnoverRatio.num = 0 => stats.avgDaysToSell = Number(0)

(* a window of one day in which stock was sold at a cost and none is left *)
(* at either end                                                         *)
C13_Witness ==
    /\ turnoverStats # None
    /\ turnoverStats[1].startDate = turnoverStats[1].endDate
    /\ turnoverStats[1].stats.totalCOGS.num > 0
    /\ turnoverStats[1].stats.avgInventoryValue = Number(0)
    /\ turnoverStats[1].stats.turnoverRatio = Number(0)

(* the cogs of the SALE records of the invoices state dated within the window *)
WindowCogs(startDate, endDate) ==
    SumSeq([k \in 1..Len(InvoicesState) |->
        IF /\ InvoicesState[k].type = SALE
           /\ startDate <= InvoicesState[k].date
           /\ InvoicesState[k].date <= endDate
        THEN InvoicesState[k].cogs ELSE 0])

(* the figures of C14 for a window whose length in days is taken as given: *)
(* totalCOGS, the mean of the two snapshot values, totalCOGS over that     *)
(* mean, and the window length over that ratio                             *)
TurnoverFigures(report, windowLength) ==
    LET stats == report.stats
        atStart == GetInventorySnapshot(InvoicesState, report.startDate).value
        atEnd == GetInventorySnapshot(InvoicesState, report.endDate).value
    IN  /\ stats.totalCOGS = Number(WindowCogs(report.startDate, report.endDate))
        /\ stats.avgInventoryValue.num * 2 = (atStart + atEnd) * stats.avgInventoryValue.den
        /\ atStart + atEnd > 0
              => stats.turnoverRatio.num * (atStart + atEnd)
                   = 2 * stats.totalCOGS.num * stats.turnoverRatio.den
        /\ stats.turnoverRatio.num > 0
              => stats.avgDaysToSell.num * stats.turnoverRatio.num
                   = windowLength * stats.turnoverRatio.den * stats.avgDaysToSell.den

(* C14, as claimed: the window length is end minus start in days for every *)
(* window, 0 for start = end.                                              *)
C14_WindowLengthIsEndMinusStart ==
    turnoverStats # None =>
        TurnoverFigures(turnoverStats[1],
                        turnoverStats[1].endDate - turnoverStats[1].startDate)

(* C14, amended: totalCOGS is the sum of cogs over the SALE records dated   *)
(* within the window, avgInventoryValue the mean of the snapshot values at  *)
(* start and end, turnoverRatio totalCOGS over avgInventoryValue and        *)
(* avgDaysToSell the window length over turnoverRatio, where the window     *)
(* length is end minus start in days but never less than 1 (1 for           *)
(* start = end).                                                            *)
C14_WindowLengthAtLeastOne ==
    turnoverStats # None =>
        TurnoverFigures(turnoverStats[1],
                        Max(1, turnoverStats[1].endDate - turnoverStats[1].startDate))

(* a window of one day with a positive turnover ratio, and so a positive *)
(* number of days to sell                                                *)
C14_Witness ==
    /\ turnoverStats # None
    /\ turnoverStats[1].startDate = turnoverStats[1].endDate
    /\ turnoverStats[1].stats.turnoverRatio.num > 0
    /\ turnoverStats[1].stats.avgDaysToSell.num > 0

(* C21: across the steps of one replay no batch's remainingQuantity         *)
(* increases, a PURCHASE step changes no batch that exists, and a batch's   *)
(* id, date, originalQuantity and costPerGram stay what they were at        *)
(* creation.                                                                *)
C21_BatchesOnlyShrink ==
    [][pc = "loop" =>
          /\ Len(currentInventory') >= Len(currentInventory)
          /\ \A k \in 1..Len(currentInventory) :
                /\ Remaining(currentInventory', k) <= Remaining(currentInventory, k)
                /\ PurchaseStep => currentInventory'[k] = currentInventory[k]
                /\ currentInventory'[k].id = currentInventory[k].id
                /\ currentInventory'[k].date = currentInventory[k].date
                /\ currentInventory'[k].originalQuantity
                      = currentInventory[k].originalQuantity
                /\ currentInventory'[k].costPerGram = currentInventory[k].costPerGram
      ]_vars

(* a sale has drawn on a batch and the next transaction of the replay is a *)
(* purchase                                                                *)
C21_Witness ==
    /\ pc = "loop"
    /\ idx < Len(sorted)
    /\ sorted[idx + 1].type = PURCHASE
    /\ \E k \in 1..Len(currentInventory) :
          Remaining(currentInventory, k) < currentInventory[k].originalQuantity

(* the entries of a log that are the missing-timestamp warning *)
TimestampWarnings(log) == {k \in 1..Len(log) : log[k].kind = "NO_TIMESTAMP"}

(* C22: the fifoLog of every SALE without a createdAt starts with the       *)
(* missing-timestamp warning (and has it nowhere else); the fifoLog of a    *)
(* SALE with a createdAt has no such entry.                                 *)
C22_MissingTimestampWarning ==
    \A inv \in ProcessedSales :
        /\ inv.createdAt = 0 => TimestampWarnings(inv.fifoLog) = {1}
        /\ inv.createdAt # 0 => TimestampWarnings(inv.fifoLog) = {}

(* a sale with and a sale without a createdAt have been processed, each *)
(* with a draw in its log                                               *)
C22_Witness ==
    /\ pc = "done"
    /\ \E inv \in ProcessedSales : inv.createdAt = 0 /\ Len(inv.fifoLog) >= 2
    /\ \E inv \in ProcessedSales : inv.createdAt # 0 /\ Len(inv.fifoLog) >= 1

(* which of two records goes first by a field: -1, 0 or 1 *)
OrderBy(x, y) == IF x < y THEN -1 ELSE IF x > y THEN 1 ELSE 0

(* the three tiers: date; createdAt when both records have one and the two *)
(* differ; id                                                              *)
TierOrder(a, b) ==
    IF a.date # b.date THEN OrderBy(a.date, b.date)
    ELSE IF a.createdAt # 0 /\ b.createdAt # 0 /\ a.createdAt # b.createdAt
         THEN OrderBy(a.createdAt, b.createdAt)
         ELSE OrderBy(a.id, b.id)

(* C23: for any two transactions the comparator of recalculateAllData and   *)
(* the comparator of getInventorySnapshot return the same result, decided   *)
(* by date, then by createdAt when both have one and the two differ, then   *)
(* by id; a same-day pair of which a record has no createdAt is ordered by  *)
(* id alone.                                                                *)
C23_ComparatorsAgreeOnTiers ==
    \A a, b \in Elements(allInvoices) :
        /\ CompareInvoices(a, b) = SnapshotCompare(a, b)
        /\ CompareInvoices(a, b) = TierOrder(a, b)
        /\ (a.date = b.date /\ (a.createdAt = 0 \/ b.createdAt = 0))
              => CompareInvoices(a, b) = OrderBy(a.id, b.id)

(* the replay and a snapshot have sorted a same-day pair of which one     *)
(* record has no createdAt, and a same-day pair that the timestamps order *)
(* against the ids                                                        *)
C23_Witness ==
    /\ pc = "done"
    /\ snapshotData # None
    /\ \E a, b \in Elements(allInvoices) :
          a.date = b.date /\ a.createdAt # 0 /\ b.createdAt = 0 /\ a.id > b.id
    /\ \E a, b \in Elements(allInvoices) :
          /\ a.date = b.date /\ a.id < b.id
          /\ b.createdAt # 0 /\ a.createdAt > b.createdAt

(* the quantity a sale's log records as sold without inventory *)
Unfulfilled(log) ==
    SumSeq([k \in 1..Len(log) |-> IF log[k].kind = "STOCKOUT" THEN log[k].grams ELSE 0])

UnfulfilledTotal(invoices) ==
    SumSeq([k \in 1..Len(invoices) |-> Unfulfilled(invoices[k].fifoLog)])

PurchasedCost(invoices) ==
    SumSeq([k \in 1..Len(invoices) |->
        IF invoices[k].type = PURCHASE
        THEN invoices[k].quantityGrams * invoices[k].ratePerGram ELSE 0])

CogsTotal(invoices) ==
    SumSeq([k \in 1..Len(invoices) |->
        IF invoices[k].type = SALE THEN invoices[k].cogs ELSE 0])

PartlyConsumed(inventory) ==
    {k \in 1..Len(inventory) :
        0 < Remaining(inventory, k)
        /\ Remaining(inventory, k) < inventory[k].originalQuantity}

(* C26: after every transaction at most one batch is partly consumed, every *)
(* batch before it is empty and every batch after it is whole; no batch is  *)
(* drawn from while a batch before it has stock.                            *)
C26_FifoShape ==
    /\ [](/\ Cardinality(PartlyConsumed(currentInventory)) <= 1
          /\ \A j, k \in 1..Len(currentInventory) :
                (j < k /\ Remaining(currentInventory, k)
                            < currentInventory[k].originalQuantity)
                  => Remaining(currentInventory, j) = 0
          /\ \A p \in PartlyConsumed(currentInventory) :
                \A k \in 1..Len(currentInventory) :
                   /\ k < p => Remaining(currentInventory, k) = 0
                   /\ k > p => Remaining(currentInventory, k)
                                 = currentInventory[k].originalQuantity)
    /\ [][SaleStep =>
            \A j, k \in 1..Len(currentInventory) :
               (j < k /\ Remaining(currentInventory', k) < Remaining(currentInventory, k))
                 => Remaining(currentInventory', j) = 0
         ]_vars

(* one sale has emptied the first batch and left the second partly consumed *)
C26_Witness ==
    /\ pc = "done"
    /\ Len(currentInventory) = 2
    /\ Remaining(currentInventory, 1) = 0
    /\ 2 \in PartlyConsumed(currentInventory)
    /\ \E inv \in ProcessedSales : Len(Draws(inv.fifoLog)) = 2

(* the batches that still hold stock, as the snapshot's {quantity, cost} pairs *)
StockedPairs(inventory) ==
    LET stocked == SelectSeq(inventory, LAMBDA batch : batch.remainingQuantity > 0)
    IN  [k \in 1..Len(stocked) |->
            [quantity |-> stocked[k].remainingQuantity, cost |-> stocked[k].costPerGram]]

ReplayUpTo(invoices, cutoff) ==
    RecalculateAllData(FilterUpTo(invoices, cutoff))

Cutoffs == 0..(MaxDateOf(allInvoices) + 1)

AuditOfLive(arr) ==
    PerformFullSystemAudit(arr, CurrentStock(currentInventory), FifoValue(currentInventory))

CleanReport(report) ==
    /\ ~HasIssue(report, "Stock Mismatch")
    /\ ~HasIssue(report, "Negative Stock Detected")
    /\ report.healthScore = 100

(* C28: when the replay recorded no stockout and every record is valid, the *)
(* audit of the collection in any array order, in particular the reversed   *)
(* order of the invoices state, with currentStock the sum of the batches'   *)
(* remaining quantities, reports no Stock Mismatch and no Negative Stock    *)
(* and gives a healthScore of 100.                                          *)
C28_AuditCleanWithoutStockout ==
    (/\ pc = "done"
     /\ \A inv \in ProcessedSales : ~HasStockout(inv.fifoLog)
     /\ \A inv \in Elements(allInvoices) : ~FailsIntegrity(inv))
    => /\ CleanReport(AuditOfLive(InvoicesState))
       /\ \A arr \in PermutationsOf(allInvoices) : CleanReport(AuditOfLive(arr))

(* C29: whatever the search query and the date range, the audit button     *)
(* hands performFullSystemAudit the totals over all batches of the live    *)
(* inventory (sum of remainingQuantity, sum of remainingQuantity *         *)
(* costPerGram) and the full collection of transactions.                   *)
C29_AuditGetsWholeInventory ==
    (auditReport # None /\ pc = "done") =>
        /\ auditReport[1].currentStock = CurrentStock(currentInventory)
        /\ auditReport[1].currentValue = FifoValue(currentInventory)
        /\ auditReport[1].invoices = InvoicesState
        /\ Len(auditReport[1].invoices) = Len(allInvoices)

(* the states after the completion of loadData or handleAddInvoice *)
InventoryState == currentInventory

(* C30: after any sequence of loadData and handleAddInvoice completions the *)
(* inventory state is the batch list recalculateAllData produces from the   *)
(* invoices state, and the invoices state is the replay's annotated list in *)
(* reverse order; the collection loadData hands to the replay after a       *)
(* fetch holds every cloud order and every local order absent from the      *)
(* cloud, and no id twice.                                                  *)
C30_StatesConsistent ==
    /\ pc = "done" =>
          /\ InventoryState = RecalculateAllData(InvoicesState).updatedInventory
          /\ InvoicesState = Reverse(RecalculateAllData(allInvoices).updatedInvoices)
    /\ (orders # None /\ orders[1].cloudOrders # None) =>
          LET cloudOrders == orders[1].cloudOrders[1]
              localOrders == orders[1].localOrders
          IN  /\ Elements(cloudOrders) \subseteq Elements(allInvoices)
              /\ \A lo \in Elements(localOrders) :
                    lo.id \notin Ids(cloudOrders) => lo \in Elements(allInvoices)
              /\ \A j, k \in 1..Len(allInvoices) :
                    j # k => allInvoices[j].id # allInvoices[k].id

============================================================================
